---- MODULE Spec2Model ----
(***************************************************************************)
(* The opportunity-to-position lifecycle of the paper trading bot:         *)
(* PaperTradingBot (bot.py) driving the trades table of Database           *)
(* (database.py).                                                          *)
(*                                                                         *)
(* Prices are Python floats in the source.  The model keeps them as whole  *)
(* cents (0.97 is 97, 1.0 is 100), and money amounts as exact fractions    *)
(* [num, den] of a dollar, so a threshold comparison or a profit formula   *)
(* is computed, not assumed.  Floating-point rounding is not modelled.     *)
(* A nullable value (Python Optional, SQL NULL) is a sequence: <<>> is     *)
(* None/NULL and <<v>> is the value v.                                     *)
(***************************************************************************)
EXTENDS Integers, Sequences, FiniteSets, TLC

\* ---------------------------------------------------------------- config.py
\* config.MAX_POSITIONS, the configured cap on concurrent positions.  The
\* shipped value is 10; the model runs the cap at a value a scan can fill.
MAX_POSITIONS == 2
\* config.POSITION_SIZE, dollars
POSITION_SIZE == 100
\* config.MIN_LIQUIDITY, dollars
MIN_LIQUIDITY == 1000
\* config.MIN_VOLUME_24H
MIN_VOLUME_24H == 500
\* config.MIN_PRICE and config.MAX_PRICE, cents
MIN_PRICE == 97
MAX_PRICE == 98
\* config.POLYMARKET_FEE = 0.02, as the fraction FEE_NUM / FEE_DEN
FEE_NUM == 2
FEE_DEN == 100
\* the literals 0.99 and 0.80 of update_open_positions, cents
WIN_THRESHOLD == 99
LOSS_THRESHOLD == 80
\* the literal 1.0 passed as exit_price of a won trade, cents
FULL_PRICE == 100

\* ------------------------------------------------------------------- bounds
\* rows the trades table may hold before no further scan or insert starts
MaxTrades == 3
\* opportunities one venue returns in one scan
MaxVenueOpps == 2

\* --------------------------------------------------------- nullable values
None == <<>>
Some(v) == <<v>>
\* Python's None where a market identifier, kept as a string, is expected
PyNone == "None"

\* ------------------------------------------------- money: exact fractions
\* fractions are kept in lowest terms with a positive denominator
Abs(n) == IF n < 0 THEN 0 - n ELSE n
RECURSIVE Gcd(_, _)
Gcd(a, b) == IF b = 0 THEN a ELSE Gcd(b, a % b)
Rat(n, d) == [num |-> n \div Gcd(Abs(n), d), den |-> d \div Gcd(Abs(n), d)]
RatZero == Rat(0, 1)
RatEq(a, b) == a.num * b.den = b.num * a.den
RatLeq(a, b) == a.num * b.den <= b.num * a.den
RatSub(a, b) == Rat(a.num * b.den - b.num * a.den, a.den * b.den)
\* gross_profit * config.POLYMARKET_FEE
RatTimesFee(a) == Rat(a.num * FEE_NUM, a.den * FEE_DEN)
\* Python max(0, x)
RatMax0(a) == IF a.num >= 0 THEN a ELSE RatZero
Lcm(a, b) == (a \div Gcd(a, b)) * b
RatAdd(a, b) ==
    Rat(a.num * (Lcm(a.den, b.den) \div a.den) + b.num * (Lcm(a.den, b.den) \div b.den),
        Lcm(a.den, b.den))
\* a / b for b > 0, the common factors taken out before multiplying
RatDiv(a, b) ==
    LET x == Rat(a.num, b.num)
        y == Rat(b.den, a.den)
    IN  Rat(x.num * y.num, x.den * y.den)
RatOfInt(n) == Rat(n, 1)

\* ----------------------------------------------------------- input domains
\* market identifiers each venue lists; "m1" is listed by both
PolyMarkets == {"m1", "m2"}
KalshiMarkets == {"m1", "m3"}
Markets == PolyMarkets \cup KalshiMarkets
Sources == {"polymarket", "kalshi"}
\* quotes inside the scan band [MIN_PRICE, MAX_PRICE]
EntryPrices == MIN_PRICE..MAX_PRICE
\* (liquidity, volume) pairs around the two minimums: every market is quoted
\* at the minimums; "m2" also just under the liquidity minimum and "m3" just
\* under the volume minimum
Depths(m) ==
    {<<MIN_LIQUIDITY, MIN_VOLUME_24H>>}
    \cup (IF m = "m2" THEN {<<MIN_LIQUIDITY - 1, MIN_VOLUME_24H>>} ELSE {})
    \cup (IF m = "m3" THEN {<<MIN_LIQUIDITY, MIN_VOLUME_24H - 1>>} ELSE {})
\* what get_current_price can return: None, or a price in [0, 1]
AdapterPrices == {None} \cup {Some(p) : p \in {0, LOSS_THRESHOLD - 1, LOSS_THRESHOLD,
                                               WIN_THRESHOLD}}
Outcomes == {"WON", "LOST"}
\* bot processes that may run against one database file
Procs == {1, 2}

VARIABLES
    trades,           \* the rows of table trades, in id order (id = index)
    polymarket_client,\* TRUE iff self.polymarket_client is not None
    kalshi_client,    \* TRUE iff self.kalshi_client is not None
    pc,               \* where run_scan stands: idle, enter, update, report
    opportunities,    \* run_scan: the sorted opportunities still to consider
    open_trades,      \* update_open_positions: snapshot rows still to visit
    trade,            \* update_open_positions: the loop variable, None outside
    current_price,    \* update_open_positions: the price fetched for trade
    entered_count,    \* run_scan: trades entered so far in this scan
    racing            \* two bots on one database: the opportunity each has
                      \* accepted and not yet inserted, None otherwise

vars == <<trades, polymarket_client, kalshi_client, pc, opportunities, open_trades,
          trade, current_price, entered_count, racing>>

\* ------------------------------------------------------------- database.py
\* the row INSERTed by add_trade: status 'OPEN', current_price = entry_price,
\* fee_paid takes the column DEFAULT 0, the other settlement columns are NULL
NewRow(id, market_id, market_question, entry_price, position_size, market_source, outcome_bet) ==
    [id |-> id, market_id |-> market_id, market_question |-> market_question,
     market_source |-> market_source, entry_time |-> id,
     entry_price |-> entry_price, position_size |-> position_size,
     current_price |-> Some(entry_price), status |-> "OPEN",
     exit_time |-> None, exit_price |-> None, profit_loss |-> None,
     fee_paid |-> Some(RatZero), outcome |-> None,
     outcome_bet |-> outcome_bet, notes |-> None]

\* a faulty add_trade: INSERT OR REPLACE keyed on (market_source, market_id)
add_trade_upsert(T, market_id, market_question, entry_price, position_size, market_source, outcome_bet) ==
    LET same == {i \in DOMAIN T : /\ T[i].market_id = market_id
                                  /\ T[i].market_source = market_source}
    IN  IF same = {}
        THEN Append(T, NewRow(Len(T) + 1, market_id, market_question, entry_price,
                              position_size, market_source, outcome_bet))
        ELSE [T EXCEPT ![CHOOSE i \in same : TRUE] =
                 NewRow(CHOOSE i \in same : TRUE, market_id, market_question,
                        entry_price, position_size, market_source, outcome_bet)]

\* market_id TEXT NOT NULL: an INSERT of None raises sqlite3.IntegrityError
NotNullViolated(market_id) == market_id = PyNone

\* Database.add_trade: an unconditional INSERT; the id is AUTOINCREMENT
add_trade(T, market_id, market_question, entry_price, position_size, market_source, outcome_bet) ==
    Append(T, NewRow(Len(T) + 1, market_id, market_question, entry_price,
                     position_size, market_source, outcome_bet))

\* a faulty update_trade_price: UPDATE ... WHERE id = ?, whatever the status
update_trade_price_anyStatus(T, trade_id, price) ==
    IF trade_id \in DOMAIN T
    THEN [T EXCEPT ![trade_id].current_price = Some(price)]
    ELSE T

\* Database.update_trade_price: UPDATE ... WHERE id = ? AND status = 'OPEN'
update_trade_price(T, trade_id, price) ==
    IF trade_id \in DOMAIN T /\ T[trade_id].status = "OPEN"
    THEN [T EXCEPT ![trade_id].current_price = Some(price)]
    ELSE T

\* shares = position_size / entry_price (entry_price is in cents)
Shares(row) == Rat(row.position_size * 100, row.entry_price)
\* gross_profit = shares * (exit_price - entry_price)
GrossProfit(row, exit_price) ==
    Rat(Shares(row).num * (exit_price - row.entry_price), Shares(row).den * 100)
\* a slip: the fee is not floored at 0
Fee_noFloor(row, exit_price, outcome) ==
    IF outcome = "WON"
    THEN RatTimesFee(GrossProfit(row, exit_price))
    ELSE RatZero
\* fee = max(0, gross_profit * config.POLYMARKET_FEE) when WON, else 0
Fee(row, exit_price, outcome) ==
    IF outcome = "WON"
    THEN RatMax0(RatTimesFee(GrossProfit(row, exit_price)))
    ELSE RatZero
\* a slip: a lost trade is charged the price move, not the stake
ProfitLoss_scaled(row, exit_price, outcome) ==
    IF outcome = "WON"
    THEN RatSub(GrossProfit(row, exit_price), Fee(row, exit_price, outcome))
    ELSE GrossProfit(row, exit_price)
\* a slip: the fee is not taken off a won trade's profit
ProfitLoss_noFee(row, exit_price, outcome) ==
    IF outcome = "WON"
    THEN GrossProfit(row, exit_price)
    ELSE Rat(0 - row.position_size, 1)
\* profit_loss = gross_profit - fee when WON, else -position_size
ProfitLoss(row, exit_price, outcome) ==
    IF outcome = "WON"
    THEN RatSub(GrossProfit(row, exit_price), Fee(row, exit_price, outcome))
    ELSE Rat(0 - row.position_size, 1)

\* the WHERE clause of the UPDATE in close_trade: WHERE id = ?
CloseTradeApplies(T, trade_id) == trade_id \in DOMAIN T

\* a faulty close_trade: the UPDATE also sets current_price = exit_price
close_trade_setsCurrentPrice(T, trade_id, exit_price, outcome, notes) ==
    IF ~CloseTradeApplies(T, trade_id)
    THEN T
    ELSE [T EXCEPT ![trade_id] =
            [@ EXCEPT !.status = "CLOSED",
                      !.current_price = Some(exit_price),
                      !.exit_time = Some("now"),
                      !.exit_price = Some(exit_price),
                      !.profit_loss = Some(ProfitLoss(T[trade_id], exit_price, outcome)),
                      !.fee_paid = Some(Fee(T[trade_id], exit_price, outcome)),
                      !.outcome = Some(outcome),
                      !.notes = Some(notes)]]

\* a faulty close_trade: the UPDATE leaves exit_time out
close_trade_noExitTime(T, trade_id, exit_price, outcome, notes) ==
    IF ~CloseTradeApplies(T, trade_id)
    THEN T
    ELSE [T EXCEPT ![trade_id] =
            [@ EXCEPT !.status = "CLOSED",
                      !.exit_price = Some(exit_price),
                      !.profit_loss = Some(ProfitLoss(T[trade_id], exit_price, outcome)),
                      !.fee_paid = Some(Fee(T[trade_id], exit_price, outcome)),
                      !.outcome = Some(outcome),
                      !.notes = Some(notes)]]

\* Database.close_trade: returns early on an unknown id, else rewrites the row
close_trade(T, trade_id, exit_price, outcome, notes) ==
    IF ~CloseTradeApplies(T, trade_id)
    THEN T
    ELSE [T EXCEPT ![trade_id] =
            [@ EXCEPT !.status = "CLOSED",
                      !.exit_time = Some("now"),
                      !.exit_price = Some(exit_price),
                      !.profit_loss = Some(ProfitLoss(T[trade_id], exit_price, outcome)),
                      !.fee_paid = Some(Fee(T[trade_id], exit_price, outcome)),
                      !.outcome = Some(outcome),
                      !.notes = Some(notes)]]

\* SQL SUM over a column: NULLs are skipped, the sum of no value is NULL
RECURSIVE SqlSum(_)
SqlSum(values) ==
    IF values = <<>> THEN None
    ELSE LET rest == SqlSum(Tail(values))
         IN  IF Head(values) = None THEN rest
             ELSE IF rest = None THEN Head(values)
             ELSE Some(RatAdd(Head(values)[1], rest[1]))
\* Python "x or default" for a fetched sum: None and 0 are falsy
OrDefault(v, default) == IF v = None \/ v[1].num = 0 THEN default ELSE v[1]
\* SELECT COUNT(*) over the selected rows with outcome = o
CountOutcome(rows, o) == Len(SelectSeq(rows, LAMBDA r : r.outcome = Some(o)))

\* the dict get_performance_stats builds from the rows its queries select
StatsOver(rows) ==
    LET total_trades == Len(rows)
        wins == CountOutcome(rows, "WON")
        losses == CountOutcome(rows, "LOST")
        total_pnl == OrDefault(SqlSum([k \in DOMAIN rows |-> rows[k].profit_loss]), RatZero)
        total_fees == OrDefault(SqlSum([k \in DOMAIN rows |-> rows[k].fee_paid]), RatZero)
        total_invested ==
            OrDefault(SqlSum([k \in DOMAIN rows |-> Some(RatOfInt(rows[k].position_size))]),
                      RatOfInt(1))
    IN  IF total_trades = 0
        THEN [total_trades |-> 0, wins |-> 0, losses |-> 0, win_rate |-> RatZero,
              total_pnl |-> RatZero, total_fees |-> RatZero, avg_profit |-> RatZero,
              roi |-> RatZero, fee_rate |-> Rat(FEE_NUM * 100, FEE_DEN)]
        ELSE [total_trades |-> total_trades, wins |-> wins, losses |-> losses,
              win_rate |-> Rat(wins * 100, total_trades),
              total_pnl |-> total_pnl,
              total_fees |-> total_fees,
              avg_profit |-> RatDiv(total_pnl, RatOfInt(total_trades)),
              roi |-> IF total_invested.num > 0
                      THEN RatDiv(RatDiv(total_pnl, total_invested), Rat(1, 100))
                      ELSE RatZero,
              fee_rate |-> Rat(FEE_NUM * 100, FEE_DEN)]

\* a faulty summary: the queries lack WHERE status = 'CLOSED'
get_performance_stats_allRows(T) == StatsOver(T)
\* Database.get_performance_stats: every query has WHERE status = 'CLOSED'
get_performance_stats(T) == StatsOver(SelectSeq(T, LAMBDA r : r.status = "CLOSED"))

\* ids of the rows WHERE status = 'OPEN'
OpenIds(T) == {i \in DOMAIN T : T[i].status = "OPEN"}

\* ORDER BY entry_time DESC over the ids in S: newest row first
RECURSIVE NewestFirst(_, _)
NewestFirst(T, S) ==
    IF S = {} THEN <<>>
    ELSE LET i == CHOOSE x \in S : \A y \in S : T[y].entry_time <= T[x].entry_time
         IN <<i>> \o NewestFirst(T, S \ {i})

\* a faulty query: the SELECT lacks WHERE status = 'OPEN'
get_open_trades_allRows(T) ==
    LET ids == NewestFirst(T, DOMAIN T)
    IN [k \in 1..Len(ids) |->
          [id |-> T[ids[k]].id, market_id |-> T[ids[k]].market_id,
           market_source |-> T[ids[k]].market_source]]
\* Database.get_open_trades: the OPEN rows, newest first.  Of the selected
\* columns the snapshot keeps those its readers use.
get_open_trades(T) ==
    LET ids == NewestFirst(T, OpenIds(T))
    IN [k \in 1..Len(ids) |->
          [id |-> T[ids[k]].id, market_id |-> T[ids[k]].market_id,
           market_source |-> T[ids[k]].market_source]]

\* ------------------------------------------------------------------ bot.py
\* market_id = opp.get('condition_id') or opp.get('market_id'); an absent or
\* empty condition_id is ""
OppMarketId(opp) ==
    IF opp.condition_id # "" THEN opp.condition_id ELSE opp.market_id

\* a slip: the duplicate check is left out
HasOpenPosition_never(T, opp) == FALSE
\* a faulty duplicate check: it looks at every row, CLOSED ones included
HasOpenPosition_anyStatus(T, opp) ==
    \E i \in DOMAIN T : T[i].market_id = OppMarketId(opp)
\* the loop over open_trades: a position in this market is already open
HasOpenPosition(T, opp) ==
    \E k \in DOMAIN get_open_trades(T) :
        get_open_trades(T)[k].market_id = OppMarketId(opp)

\* a slip: > for >=
AtPositionLimit_offByOne(T) == Len(get_open_trades(T)) > MAX_POSITIONS
\* the position-limit check: len(open_trades) >= config.MAX_POSITIONS
AtPositionLimit(T) == Len(get_open_trades(T)) >= MAX_POSITIONS

\* a faulty filter: the liquidity and volume checks are left out
should_enter_trade_noDepth(T, opp) ==
    IF HasOpenPosition(T, opp) THEN FALSE
    ELSE IF AtPositionLimit(T) THEN FALSE
    ELSE TRUE

\* PaperTradingBot.should_enter_trade
should_enter_trade(T, opp) ==
    IF HasOpenPosition(T, opp) THEN FALSE
    ELSE IF AtPositionLimit(T) THEN FALSE
    ELSE IF opp.liquidity < MIN_LIQUIDITY THEN FALSE
    ELSE IF opp.volume < MIN_VOLUME_24H THEN FALSE
    ELSE TRUE

\* PaperTradingBot.enter_trade: add_trade with outcome_bet left at its default
enter_trade(T, opp) ==
    add_trade(T, OppMarketId(opp), opp.question, opp.price, POSITION_SIZE,
              opp.source, "YES")

\* opportunities.sort(key=price, reverse=True): stable, highest price first
RECURSIVE InsertByPrice(_, _)
InsertByPrice(sorted, opp) ==
    IF sorted = <<>> THEN <<opp>>
    ELSE IF Head(sorted).price >= opp.price
         THEN <<Head(sorted)>> \o InsertByPrice(Tail(sorted), opp)
         ELSE <<opp>> \o sorted
\* a faulty scan: the sort is left out
SortByPriceDesc_unsorted(opps) == opps
RECURSIVE SortByPriceDesc(_)
SortByPriceDesc(opps) ==
    IF opps = <<>> THEN <<>>
    ELSE InsertByPrice(SortByPriceDesc(SubSeq(opps, 1, Len(opps) - 1)),
                       opps[Len(opps)])

\* what PolymarketClient.find_opportunities yields for a market whose YES
\* price is in the band: condition_id set, outcome 'YES', source 'polymarket';
\* run_scan copies condition_id to market_id
PolyOpps ==
    UNION {{[source |-> "polymarket", condition_id |-> m, market_id |-> m,
             question |-> "q", outcome |-> "YES", price |-> p,
             liquidity |-> d[1], volume |-> d[2]] :
               p \in EntryPrices, d \in Depths(m)} : m \in PolyMarkets}
\* what KalshiClient.find_opportunities yields: market_id is the ticker
KalshiOpps ==
    UNION {{[source |-> "kalshi", condition_id |-> "", market_id |-> m,
             question |-> "q", outcome |-> "YES", price |-> p,
             liquidity |-> d[1], volume |-> d[2]] :
               p \in EntryPrices, d \in Depths(m)} : m \in KalshiMarkets}
\* lists of at most n elements of S
ListsUpTo(S, n) == UNION {[1..k -> S] : k \in 0..n}

Min(a, b) == IF a <= b THEN a ELSE b
\* the lists one venue can contribute to a scan: nothing when its client is
\* None, else at most MaxVenueOpps of its opportunities, and no more than the
\* table has room for
VenueLists(client, opps, room) ==
    IF client THEN ListsUpTo(opps, Min(MaxVenueOpps, room)) ELSE {<<>>}

\* if current_price: None and 0.0 are both falsy
Truthy(price) == price # None /\ price[1] # 0

\* a slip: a won trade is closed at the fetched price, not at 1.0
UpdateOne_exitAtPrice(T, tr, price) ==
    IF ~Truthy(price) THEN T
    ELSE LET p == price[1]
             T1 == update_trade_price(T, tr.id, p)
         IN IF p >= WIN_THRESHOLD
            THEN close_trade(T1, tr.id, p, "WON", "Market resolved to YES")
            ELSE IF p < LOSS_THRESHOLD
            THEN close_trade(T1, tr.id, p, "LOST", "Price dropped below threshold")
            ELSE T1
\* a slip: <= for < at the loss threshold
UpdateOne_lossInclusive(T, tr, price) ==
    IF ~Truthy(price) THEN T
    ELSE LET p == price[1]
             T1 == update_trade_price(T, tr.id, p)
         IN IF p >= WIN_THRESHOLD
            THEN close_trade(T1, tr.id, FULL_PRICE, "WON", "Market resolved to YES")
            ELSE IF p <= LOSS_THRESHOLD
            THEN close_trade(T1, tr.id, p, "LOST", "Price dropped below threshold")
            ELSE T1
\* a slip: a price that could not be fetched is taken for a price of zero
UpdateOne_noneIsZero(T, tr, price) ==
    LET p == IF price = None THEN 0 ELSE price[1]
        T1 == update_trade_price(T, tr.id, p)
    IN IF p >= WIN_THRESHOLD
       THEN close_trade(T1, tr.id, FULL_PRICE, "WON", "Market resolved to YES")
       ELSE IF p < LOSS_THRESHOLD
       THEN close_trade(T1, tr.id, p, "LOST", "Price dropped below threshold")
       ELSE T1
\* a slip: > for >= at the win threshold
UpdateOne_winExclusive(T, tr, price) ==
    IF ~Truthy(price) THEN T
    ELSE LET p == price[1]
             T1 == update_trade_price(T, tr.id, p)
         IN IF p > WIN_THRESHOLD
            THEN close_trade(T1, tr.id, FULL_PRICE, "WON", "Market resolved to YES")
            ELSE IF p < LOSS_THRESHOLD
            THEN close_trade(T1, tr.id, p, "LOST", "Price dropped below threshold")
            ELSE T1
\* a slip: the trade is closed without its price being refreshed first
UpdateOne_closeWithoutRefresh(T, tr, price) ==
    IF ~Truthy(price) THEN T
    ELSE LET p == price[1]
         IN IF p >= WIN_THRESHOLD
            THEN close_trade(T, tr.id, FULL_PRICE, "WON", "Market resolved to YES")
            ELSE IF p < LOSS_THRESHOLD
            THEN close_trade(T, tr.id, p, "LOST", "Price dropped below threshold")
            ELSE update_trade_price(T, tr.id, p)
\* the body of the loop of update_open_positions for one snapshot row
UpdateOne(T, tr, price) ==
    IF ~Truthy(price) THEN T
    ELSE LET p == price[1]
             T1 == update_trade_price(T, tr.id, p)
         IN IF p >= WIN_THRESHOLD
            THEN close_trade(T1, tr.id, FULL_PRICE, "WON", "Market resolved to YES")
            ELSE IF p < LOSS_THRESHOLD
            THEN close_trade(T1, tr.id, p, "LOST", "Price dropped below threshold")
            ELSE T1

\* the leg update_open_positions asks the adapter about for a snapshot row:
\* get_current_price(trade['market_id']) leaves outcome at its default
RequestedLeg(tr) == "YES"

\* a faulty choice of adapter: every position that is not Kalshi's is priced
\* by the Polymarket client
FetchedPrices_polymarketByDefault(tr) ==
    IF tr.market_source = "kalshi" /\ kalshi_client THEN AdapterPrices
    ELSE IF polymarket_client THEN AdapterPrices
    ELSE {None}
\* the adapter update_open_positions asks: None when the venue's client is off
\* or the source tag matches no venue
FetchedPrices(tr) ==
    IF tr.market_source = "kalshi" /\ kalshi_client THEN AdapterPrices
    ELSE IF tr.market_source = "polymarket" /\ polymarket_client THEN AdapterPrices
    ELSE {None}

Init ==
    /\ trades = <<>>
    /\ polymarket_client \in BOOLEAN
    /\ kalshi_client \in BOOLEAN
    /\ pc = "idle"
    /\ opportunities = <<>>
    /\ open_trades = <<>>
    /\ trade = None
    /\ current_price = None
    /\ entered_count = 0
    /\ racing = [p \in Procs |-> None]

\* run_scan up to the sort: both venues are asked, the lists merged and sorted.
\* poly and kalshi are the records the two adapters may return.
ScanStartFrom(poly, kalshi) ==
    /\ pc = "idle"
    /\ \E poly_opps \in VenueLists(polymarket_client, poly, MaxTrades - Len(trades)) :
       \E kalshi_opps \in VenueLists(kalshi_client, kalshi,
                                     MaxTrades - Len(trades) - Len(poly_opps)) :
          opportunities' = SortByPriceDesc(poly_opps \o kalshi_opps)
    /\ pc' = "enter"
    /\ entered_count' = 0
    /\ UNCHANGED <<trades, polymarket_client, kalshi_client, open_trades, trade,
                   current_price, racing>>

\* a scan in which every record the adapters return is well formed
ScanStart == ScanStartFrom(PolyOpps, KalshiOpps)

\* a faulty loop: a while loop over the list that drops its head only when
\* the opportunity was entered
EnterStep_popsOnlyEntered ==
    /\ pc = "enter"
    /\ opportunities # <<>>
    /\ IF should_enter_trade(trades, Head(opportunities))
       THEN /\ trades' = enter_trade(trades, Head(opportunities))
            /\ entered_count' = entered_count + 1
            /\ opportunities' = Tail(opportunities)
       ELSE UNCHANGED <<trades, entered_count, opportunities>>
    /\ UNCHANGED <<polymarket_client, kalshi_client, pc, open_trades, trade,
                   current_price, racing>>

\* one turn of "for opp in opportunities": when add_trade raises, nothing in
\* run_scan or run_continuous catches it and the scan is over
EnterStep ==
    /\ pc = "enter"
    /\ opportunities # <<>>
    /\ IF /\ should_enter_trade(trades, Head(opportunities))
          /\ NotNullViolated(OppMarketId(Head(opportunities)))
       THEN /\ pc' = "aborted"
            /\ UNCHANGED <<trades, opportunities, entered_count>>
       ELSE /\ trades' = IF should_enter_trade(trades, Head(opportunities))
                         THEN enter_trade(trades, Head(opportunities))
                         ELSE trades
            /\ entered_count' = IF should_enter_trade(trades, Head(opportunities))
                                THEN entered_count + 1
                                ELSE entered_count
            /\ opportunities' = Tail(opportunities)
            /\ pc' = pc
    /\ UNCHANGED <<polymarket_client, kalshi_client, open_trades, trade,
                   current_price, racing>>

\* a faulty run_scan: the snapshot the refresh loop walks was read before
\* the entry loop, so it lacks the positions this scan has opened
UpdateStart_staleSnapshot ==
    /\ pc = "enter"
    /\ opportunities = <<>>
    /\ open_trades' = get_open_trades(SubSeq(trades, 1, Len(trades) - entered_count))
    /\ pc' = "update"
    /\ UNCHANGED <<trades, polymarket_client, kalshi_client, opportunities, trade,
                   current_price, entered_count, racing>>

\* the loop is over: entered_count is read (the "No new trades entered"
\* line) and update_open_positions reads its snapshot
UpdateStart ==
    /\ pc = "enter"
    /\ opportunities = <<>>
    /\ open_trades' = get_open_trades(trades)
    /\ pc' = "update"
    /\ UNCHANGED <<trades, polymarket_client, kalshi_client, opportunities, trade,
                   current_price, entered_count, racing>>

\* one turn of "for trade in open_trades"
UpdateStep ==
    /\ pc = "update"
    /\ open_trades # <<>>
    /\ trade' = Some(Head(open_trades))
    /\ current_price' \in FetchedPrices(Head(open_trades))
    /\ trades' = UpdateOne(trades, Head(open_trades), current_price')
    /\ open_trades' = Tail(open_trades)
    /\ UNCHANGED <<polymarket_client, kalshi_client, pc, opportunities,
                   entered_count, racing>>

\* update_open_positions returns; display_open_positions and display_stats.
\* entered_count, a local of run_scan, is not read again.
Report ==
    /\ pc = "update"
    /\ open_trades = <<>>
    /\ pc' = "report"
    /\ trade' = None
    /\ current_price' = None
    /\ entered_count' = 0
    /\ UNCHANGED <<trades, polymarket_client, kalshi_client, opportunities, open_trades,
                   racing>>

\* run_scan returns
ScanEnd ==
    /\ pc = "report"
    /\ pc' = "idle"
    /\ UNCHANGED <<trades, polymarket_client, kalshi_client, opportunities, open_trades,
                   trade, current_price,
                   entered_count, racing>>

Next == ScanStart \/ EnterStep \/ UpdateStart \/ UpdateStep \/ Report \/ ScanEnd

Spec == Init /\ [][Next]_vars

\* the bot's single thread is never held up: whenever run_continuous or
\* run_scan has a next statement, it is executed
FairSpec == Spec /\ WF_vars(Next)

\* ------------------------------------------- the ledger called on its own
\* Database is a public class: its tests and any caller may invoke add_trade,
\* update_trade_price and close_trade with arguments of their choosing.
\* rows the table may hold under LedgerSpec
MaxLedgerRows == 2
\* (market_source, market_id) arguments
LedgerKeys == {<<"polymarket", "m1">>, <<"kalshi", "m1">>}
\* current_price arguments of update_trade_price
LedgerUpdatePrices == {LOSS_THRESHOLD - 1}
\* exit_price arguments of close_trade: below, at and above an entry price
LedgerExitPrices == {LOSS_THRESHOLD - 1, MIN_PRICE, FULL_PRICE}
\* trade_id arguments: every row, and one id no row has
LedgerIds == 1..(MaxLedgerRows + 1)

AddTrade ==
    /\ Len(trades) < MaxLedgerRows
    /\ \E key \in LedgerKeys, entry_price \in EntryPrices :
          trades' = add_trade(trades, key[2], "q", entry_price, POSITION_SIZE,
                              key[1], "YES")
    /\ UNCHANGED <<polymarket_client, kalshi_client, pc, opportunities, open_trades,
                   trade, current_price,
                   entered_count, racing>>

UpdateTradePrice ==
    /\ \E trade_id \in LedgerIds, price \in LedgerUpdatePrices :
          trades' = update_trade_price(trades, trade_id, price)
    /\ UNCHANGED <<polymarket_client, kalshi_client, pc, opportunities, open_trades,
                   trade, current_price,
                   entered_count, racing>>

CloseTrade ==
    /\ \E trade_id \in LedgerIds, exit_price \in LedgerExitPrices, outcome \in Outcomes :
          trades' = close_trade(trades, trade_id, exit_price, outcome, "")
    /\ UNCHANGED <<polymarket_client, kalshi_client, pc, opportunities, open_trades,
                   trade, current_price,
                   entered_count, racing>>

LedgerNext == AddTrade \/ UpdateTradePrice \/ CloseTrade

\* the clients play no part in the ledger's own operations
LedgerInit == Init /\ polymarket_client /\ kalshi_client

LedgerSpec == LedgerInit /\ [][LedgerNext]_vars

\* ------------------------------------------ two bots on one database file
\* Every Database method opens its own connection to the file, so a second
\* bot process started on the same file commits between any two calls of the
\* first. Only the entry loop of each bot is followed here.
\* what either bot may be offered: opportunities deep enough to be entered
RaceOpps ==
    {o \in PolyOpps \cup KalshiOpps :
        /\ o.price = MIN_PRICE
        /\ o.liquidity >= MIN_LIQUIDITY
        /\ o.volume >= MIN_VOLUME_24H}

\* bot p evaluates "if self.should_enter_trade(opp)" and the answer is yes
RaceFilter(p) ==
    /\ racing[p] = None
    /\ \E opp \in RaceOpps :
          /\ should_enter_trade(trades, opp)
          /\ racing' = [racing EXCEPT ![p] = Some(opp)]
    /\ UNCHANGED <<trades, polymarket_client, kalshi_client, pc, opportunities,
                   open_trades, trade, current_price, entered_count>>

\* bot p goes on to "self.enter_trade(opp)"
RaceEnter(p) ==
    /\ racing[p] # None
    /\ trades' = enter_trade(trades, racing[p][1])
    /\ racing' = [racing EXCEPT ![p] = None]
    /\ UNCHANGED <<polymarket_client, kalshi_client, pc, opportunities,
                   open_trades, trade, current_price, entered_count>>

RaceNext == \E p \in Procs : RaceFilter(p) \/ RaceEnter(p)

RaceSpec == Init /\ [][RaceNext]_vars

\* ------------------------------ scan cycles and direct calls on one ledger
\* Between two scans any caller may use the Database API on the same file.
\* The table is kept to MaxLedgerRows rows: a scan is offered no more
\* opportunities than the table has room for.
MixedScanStart == ScanStart /\ Len(trades) + Len(opportunities') <= MaxLedgerRows

MixedLedgerCall == pc = "idle" /\ LedgerNext

MixedNext ==
    \/ MixedScanStart
    \/ EnterStep
    \/ UpdateStart
    \/ UpdateStep
    \/ Report
    \/ ScanEnd
    \/ MixedLedgerCall

MixedSpec == LedgerInit /\ [][MixedNext]_vars

\* ------------------------------------- adapters returning malformed records
\* A Polymarket market without conditionId yields condition_id "", which
\* run_scan copies to market_id; a Kalshi market without ticker yields
\* market_id None. Both records are otherwise deep enough to be entered.
MalformedPolyOpps ==
    {[source |-> "polymarket", condition_id |-> "", market_id |-> "",
      question |-> "q", outcome |-> "YES", price |-> p, liquidity |-> MIN_LIQUIDITY,
      volume |-> MIN_VOLUME_24H] : p \in EntryPrices}
MalformedKalshiOpps ==
    {[source |-> "kalshi", condition_id |-> "", market_id |-> PyNone,
      question |-> "q", outcome |-> "YES", price |-> p, liquidity |-> MIN_LIQUIDITY,
      volume |-> MIN_VOLUME_24H] : p \in EntryPrices}

MalformedScanStart ==
    ScanStartFrom(PolyOpps \cup MalformedPolyOpps, KalshiOpps \cup MalformedKalshiOpps)

MalformedNext ==
    \/ MalformedScanStart
    \/ EnterStep
    \/ UpdateStart
    \/ UpdateStep
    \/ Report
    \/ ScanEnd

MalformedSpec == Init /\ [][MalformedNext]_vars

\* --------------------------------------- Polymarket quoting the NO leg
\* find_opportunities looks at the NO price when the YES price is outside the
\* band, and then yields the record with outcome "NO" and the NO price.
NoLegPolyOpps ==
    {[source |-> "polymarket", condition_id |-> m, market_id |-> m,
      question |-> "q", outcome |-> "NO", price |-> p, liquidity |-> MIN_LIQUIDITY,
      volume |-> MIN_VOLUME_24H] : m \in PolyMarkets, p \in EntryPrices}

SideScanStart == ScanStartFrom(PolyOpps \cup NoLegPolyOpps, KalshiOpps)

SideNext ==
    \/ SideScanStart
    \/ EnterStep
    \/ UpdateStart
    \/ UpdateStep
    \/ Report
    \/ ScanEnd

SideSpec == Init /\ [][SideNext]_vars

\* ------------------------------- positions of a venue the bot does not run
\* The database file outlives the bot: it may hold OPEN positions of a venue
\* this run has switched off (--no-poly, --no-kalshi), or rows a caller of
\* add_trade tagged with a source that is neither venue.
OffVenueSources ==
    {src \in {"polymarket", "kalshi", "other"} :
        ~ \/ src = "kalshi" /\ kalshi_client
          \/ src = "polymarket" /\ polymarket_client}

AddOffVenueTrade ==
    /\ pc = "idle"
    /\ Len(trades) < MaxLedgerRows
    /\ \E src \in OffVenueSources :
          trades' = add_trade(trades, "m1", "q", MIN_PRICE, POSITION_SIZE, src, "YES")
    /\ UNCHANGED <<polymarket_client, kalshi_client, pc, opportunities, open_trades,
                   trade, current_price, entered_count, racing>>

OffVenueNext ==
    \/ AddOffVenueTrade
    \/ ScanStart
    \/ EnterStep
    \/ UpdateStart
    \/ UpdateStep
    \/ Report
    \/ ScanEnd

OffVenueSpec == Init /\ [][OffVenueNext]_vars

\* ================================================================= claims
\* helpers of the statements below
IsOpen(row) == row.status = "OPEN"
IsClosed(row) == row.status = "CLOSED"
SameMarket(a, b) == a.market_source = b.market_source /\ a.market_id = b.market_id
OpenCount == Cardinality(OpenIds(trades))
\* the step just taken is one turn of the refresh loop
RefreshTurn == pc = "update" /\ open_trades # <<>> /\ open_trades' = Tail(open_trades)
\* the row the refresh loop is visiting in that turn
Visited == Head(open_trades).id
\* the opportunity at the head of the list passes the liquidity and volume checks
HeadIsLiquid ==
    /\ Head(opportunities).liquidity >= MIN_LIQUIDITY
    /\ Head(opportunities).volume >= MIN_VOLUME_24H
\* reference arithmetic, straight from notional, entry and exit price
RefGross(row) ==
    Rat(row.position_size * (row.exit_price[1] - row.entry_price), row.entry_price)
RefFee(row) ==
    IF RefGross(row).num > 0
    THEN Rat(RefGross(row).num * FEE_NUM, RefGross(row).den * FEE_DEN)
    ELSE RatZero
\* a non-negative fraction rounded to the nearest 1/scale, as a count of 1/scale
RoundTo(r, scale) == (2 * r.num * scale + r.den) \div (2 * r.den)
Won(row) == IsClosed(row) /\ row.outcome = Some("WON")
Lost(row) == IsClosed(row) /\ row.outcome = Some("LOST")

\* C1: under scan cycles from an empty ledger, no two OPEN positions share a
\* (venue, market identifier) pair, also when one scan offers a market twice.
C1_OneOpenPerMarket ==
    \A i, j \in DOMAIN trades :
        (i # j /\ IsOpen(trades[i]) /\ IsOpen(trades[j]))
            => ~SameMarket(trades[i], trades[j])
\* the scan is about to consider an opportunity for a (venue, market) it holds
\* an OPEN position in, and only the duplicate check stands in its way
C1_Witness ==
    /\ pc = "enter" /\ opportunities # <<>>
    /\ OpenCount < MAX_POSITIONS
    /\ HeadIsLiquid
    /\ \E i \in OpenIds(trades) :
          /\ trades[i].market_source = Head(opportunities).source
          /\ trades[i].market_id = OppMarketId(Head(opportunities))

\* C2: the number of OPEN positions never exceeds MAX_POSITIONS, inside and
\* between cycles, and while the cap is reached the entry loop opens nothing.
C2_CapRespected ==
    /\ [](OpenCount <= MAX_POSITIONS)
    /\ [][(pc = "enter" /\ OpenCount >= MAX_POSITIONS) => trades' = trades]_vars
\* the cap is reached and the next opportunity is eligible but for the cap
C2_Witness ==
    /\ pc = "enter" /\ opportunities # <<>>
    /\ OpenCount = MAX_POSITIONS
    /\ HeadIsLiquid
    /\ \A i \in OpenIds(trades) : trades[i].market_id # OppMarketId(Head(opportunities))

\* C3: a CLOSED position is frozen: no ledger operation, close_trade included,
\* changes any of its fields.
C3_ClosedRowsFrozen ==
    [][\A i \in DOMAIN trades : IsClosed(trades[i]) => trades'[i] = trades[i]]_vars

\* C4: a refresh turn that fetched a price p with 0 <= p < 0.80 (0.0 included)
\* closes the visited OPEN position as LOST at exit price p.
C4_BelowLossClosesLost ==
    [][(/\ RefreshTurn
        /\ current_price' # None
        /\ current_price'[1] >= 0 /\ current_price'[1] < LOSS_THRESHOLD)
       => /\ IsOpen(trades[Visited])
          /\ Lost(trades'[Visited])
          /\ trades'[Visited].exit_price = current_price']_vars

\* C5: a refresh turn that fetched a price p >= 0.99 closes the visited OPEN
\* position as WON with exit price 1.0.
C5_AtOrAboveWinClosesWon ==
    [][(/\ RefreshTurn
        /\ current_price' # None
        /\ current_price'[1] >= WIN_THRESHOLD)
       => /\ IsOpen(trades[Visited])
          /\ Won(trades'[Visited])
          /\ trades'[Visited].exit_price = Some(FULL_PRICE)]_vars
\* a position was just closed as WON on a fetched price of exactly 0.99
C5_Witness ==
    /\ pc = "update" /\ trade # None
    /\ current_price = Some(WIN_THRESHOLD)
    /\ Won(trades[trade[1].id])

\* C6: a refresh turn that fetched a price p with 0.80 <= p < 0.99 settles
\* nothing: the visited position stays OPEN, its last-observed price becomes p
\* and nothing else in the ledger changes.
C6_BandKeepsOpen ==
    [][(/\ RefreshTurn
        /\ current_price' # None
        /\ current_price'[1] >= LOSS_THRESHOLD /\ current_price'[1] < WIN_THRESHOLD)
       => /\ IsOpen(trades[Visited])
          /\ trades' = [trades EXCEPT ![Visited].current_price = current_price']
          /\ IsOpen(trades'[Visited])]_vars
\* a position was just refreshed to exactly 0.80 and is still OPEN
C6_Witness ==
    /\ pc = "update" /\ trade # None
    /\ current_price = Some(LOSS_THRESHOLD)
    /\ IsOpen(trades[trade[1].id])
    /\ trades[trade[1].id].current_price = Some(LOSS_THRESHOLD)

\* C7: every position settled LOST has profit_loss = -notional and fee_paid = 0,
\* whatever its exit price.
C7_LostForfeitsStake ==
    \A i \in DOMAIN trades :
        Lost(trades[i])
            => /\ trades[i].profit_loss = Some(Rat(0 - trades[i].position_size, 1))
               /\ trades[i].fee_paid = Some(RatZero)
\* a position settled LOST on a partial drop: its exit price is above 0
C7_Witness ==
    \E i \in DOMAIN trades :
        Lost(trades[i]) /\ trades[i].exit_price = Some(LOSS_THRESHOLD - 1)

\* C8 as stated: every position settled WON has 0 <= fee_paid <= gross_profit.
C8_FeeWithinGross ==
    \A i \in DOMAIN trades :
        Won(trades[i])
            => /\ RatLeq(RatZero, trades[i].fee_paid[1])
               /\ RatLeq(trades[i].fee_paid[1], RefGross(trades[i]))
\* C8 as amended: every position settled WON has fee_paid >= 0, fee_paid <=
\* gross_profit whenever gross_profit >= 0, and fee_paid = 0 whenever
\* gross_profit <= 0.
C8_FeeBounded ==
    \A i \in DOMAIN trades :
        Won(trades[i])
            => /\ RatLeq(RatZero, trades[i].fee_paid[1])
               /\ RatLeq(RatZero, RefGross(trades[i]))
                    => RatLeq(trades[i].fee_paid[1], RefGross(trades[i]))
               /\ RatLeq(RefGross(trades[i]), RatZero)
                    => RatEq(trades[i].fee_paid[1], RatZero)
\* a position settled WON below its entry price: its gross profit is negative
C8_Witness ==
    \E i \in DOMAIN trades :
        Won(trades[i]) /\ trades[i].exit_price[1] < trades[i].entry_price

\* C9: a WON settlement stores fee_paid = max(0, gross_profit x fee_rate) and
\* profit_loss = gross_profit - fee_paid for gross_profit = (notional /
\* entry_price) x (exit_price - entry_price); entry 0.97, notional 100, exit 1.0
\* gives gross_profit 3.09, fee 0.0619 and profit_loss 3.03 after rounding.
C9_WonArithmetic ==
    \A i \in DOMAIN trades :
        Won(trades[i])
            => /\ RatEq(trades[i].fee_paid[1], RefFee(trades[i]))
               /\ RatEq(trades[i].profit_loss[1],
                        RatSub(RefGross(trades[i]), RefFee(trades[i])))
               /\ (/\ trades[i].entry_price = 97
                   /\ trades[i].position_size = 100
                   /\ trades[i].exit_price = Some(100))
                    => /\ RoundTo(RefGross(trades[i]), 100) = 309
                       /\ RoundTo(trades[i].fee_paid[1], 10000) = 619
                       /\ RoundTo(trades[i].profit_loss[1], 100) = 303
\* the worked example has been settled
C9_Witness ==
    \E i \in DOMAIN trades :
        /\ Won(trades[i])
        /\ trades[i].entry_price = 97 /\ trades[i].position_size = 100
        /\ trades[i].exit_price = Some(100)

\* C10: add_trade creates no position for a (venue, market identifier) that
\* already has an OPEN one.
C10_AddTradeRefusesDuplicate ==
    [][Len(trades') > Len(trades)
        => \A i \in OpenIds(trades) : ~SameMarket(trades[i], trades'[Len(trades')])]_vars

\* C11: when two scans on one ledger both pass the entry filter for a market
\* before either inserts, the second insert creates nothing: a bot that goes
\* on to enter_trade for a (venue, market) already held OPEN leaves the table
\* as it is.
C11_SecondWriterRefused ==
    [][\A p \in Procs :
          (/\ racing[p] # None
           /\ racing'[p] = None
           /\ \E i \in OpenIds(trades) :
                 /\ trades[i].market_source = racing[p][1].source
                 /\ trades[i].market_id = OppMarketId(racing[p][1]))
             => trades' = trades]_vars

\* C12: whatever ledger operations and scan cycles follow, a row stays in the
\* table under its id, and a row that is CLOSED stays CLOSED: status only
\* ever goes from OPEN to CLOSED.
C12_StatusOneWay ==
    [][\A i \in DOMAIN trades :
          /\ i \in DOMAIN trades'
          /\ trades'[i].id = trades[i].id
          /\ trades'[i].status \in {"OPEN", "CLOSED"}
          /\ IsClosed(trades[i]) => IsClosed(trades'[i])]_vars
\* a market was entered again after its position was closed: the CLOSED row
\* is still there and the new position is a row of its own
C12_Witness ==
    \E i, j \in DOMAIN trades :
        /\ i < j
        /\ IsClosed(trades[i])
        /\ IsOpen(trades[j])
        /\ SameMarket(trades[i], trades[j])

\* the six settlement columns of a row
SettlementFields(row) ==
    {row.exit_price, row.outcome, row.profit_loss, row.fee_paid, row.exit_time,
     row.notes}

\* C13: in every reachable state exit price, outcome, profit_loss, fee_paid,
\* close timestamp and note are all populated for a CLOSED position and all
\* null for an OPEN position.
C13_AllOrNothing ==
    \A i \in DOMAIN trades :
        /\ IsClosed(trades[i]) => None \notin SettlementFields(trades[i])
        /\ IsOpen(trades[i]) => SettlementFields(trades[i]) = {None}
\* C13, as the schema has it: the six fields are populated for a CLOSED
\* position; for an OPEN position exit price, outcome, profit_loss, close
\* timestamp and note are null and fee_paid is 0, its column default.
C13_SettlementFields ==
    \A i \in DOMAIN trades :
        /\ IsClosed(trades[i]) => None \notin SettlementFields(trades[i])
        /\ IsOpen(trades[i]) =>
              /\ trades[i].exit_price = None
              /\ trades[i].outcome = None
              /\ trades[i].profit_loss = None
              /\ trades[i].exit_time = None
              /\ trades[i].notes = None
              /\ trades[i].fee_paid = Some(RatZero)
\* the table holds a settled row next to an OPEN one
C13_Witness ==
    \E i, j \in DOMAIN trades : IsClosed(trades[i]) /\ IsOpen(trades[j])

\* C14: in every state the ledger reaches, update_trade_price addressed to a
\* CLOSED row or to an id no row has, and close_trade addressed to an id no
\* row has, return with the table exactly as it was: no row added, no field
\* of any row changed.
C14_MissingOrFinishedIsNoOp ==
    /\ \A trade_id \in LedgerIds, price \in LedgerUpdatePrices \cup LedgerExitPrices :
          (trade_id \notin DOMAIN trades \/ IsClosed(trades[trade_id]))
             => update_trade_price(trades, trade_id, price) = trades
    /\ \A trade_id \in LedgerIds \ DOMAIN trades :
          \A exit_price \in LedgerExitPrices, outcome \in Outcomes :
             close_trade(trades, trade_id, exit_price, outcome, "") = trades
\* the table holds an OPEN row and a CLOSED row whose current_price differs
\* from every price a refresh may bring
C14_Witness ==
    /\ \E i \in DOMAIN trades : IsOpen(trades[i])
    /\ \E i \in DOMAIN trades :
          /\ IsClosed(trades[i])
          /\ trades[i].current_price = Some(trades[i].entry_price)

\* the head of the list is for a (venue, market) held in an OPEN position
HeadIsHeld ==
    \E i \in OpenIds(trades) :
        /\ trades[i].market_source = Head(opportunities).source
        /\ trades[i].market_id = OppMarketId(Head(opportunities))

\* C15: when an OPEN position exists for the opportunity's market, or the
\* OPEN positions number MAX_POSITIONS or more, or its liquidity is below
\* MIN_LIQUIDITY, or its volume is below MIN_VOLUME_24H, the filter says no
\* and the entry loop passes the opportunity by without touching the table.
C15_FilterRejects ==
    [][(/\ pc = "enter"
        /\ opportunities # <<>>
        /\ \/ HeadIsHeld
           \/ OpenCount >= MAX_POSITIONS
           \/ Head(opportunities).liquidity < MIN_LIQUIDITY
           \/ Head(opportunities).volume < MIN_VOLUME_24H)
          => /\ ~should_enter_trade(trades, Head(opportunities))
             /\ trades' = trades]_vars
\* the entry loop has come to an opportunity short of liquidity or volume,
\* with its market not held and the cap not reached
C15_Witness ==
    /\ pc = "enter"
    /\ opportunities # <<>>
    /\ ~HeadIsLiquid
    /\ ~HasOpenPosition(trades, Head(opportunities))
    /\ OpenCount < MAX_POSITIONS

\* C16: the filter accepts exactly when none of the four rejection conditions
\* holds, the duplicate condition being an OPEN position of the same venue
\* and market identifier: an OPEN position with the same identifier on
\* another venue does not make it reject.
C16_FilterAcceptsExactly ==
    (pc = "enter" /\ opportunities # <<>>)
       => (should_enter_trade(trades, Head(opportunities))
             <=> ~(\/ HeadIsHeld
                   \/ OpenCount >= MAX_POSITIONS
                   \/ Head(opportunities).liquidity < MIN_LIQUIDITY
                   \/ Head(opportunities).volume < MIN_VOLUME_24H))

\* the rows this scan has opened: the last entered_count rows of the table
OpenedThisScan == {i \in DOMAIN trades : i > Len(trades) - entered_count}

\* C17: within a scan the opportunities still to be considered are in
\* non-increasing price order, and when the entry loop comes to one that
\* passes the duplicate, liquidity and volume checks and is turned down by
\* the cap alone, every position the scan has opened was entered at its price
\* or a higher one.
C17_CapGoesToHighestPrices ==
    pc = "enter" =>
       /\ \A i, j \in DOMAIN opportunities :
             i < j => opportunities[i].price >= opportunities[j].price
       /\ (/\ opportunities # <<>>
           /\ ~HasOpenPosition(trades, Head(opportunities))
           /\ HeadIsLiquid
           /\ AtPositionLimit(trades))
             => \A i \in OpenedThisScan :
                   trades[i].entry_price >= Head(opportunities).price
\* the cap was filled in this scan at the higher price and the loop has come
\* to a cheaper opportunity that only the cap turns down
C17_Witness ==
    /\ pc = "enter"
    /\ opportunities # <<>>
    /\ ~HasOpenPosition(trades, Head(opportunities))
    /\ HeadIsLiquid
    /\ AtPositionLimit(trades)
    /\ entered_count = MAX_POSITIONS
    /\ \A i \in OpenedThisScan : trades[i].entry_price > Head(opportunities).price

\* the snapshot rows for the OPEN positions older than row id, newest first
OpenBelow(T, id) == SelectSeq(get_open_trades(T), LAMBDA r : r.id < id)

\* C18: when the adapter yields no price for the position the refresh loop is
\* visiting, no field of any row changes, the loop goes on, and every other
\* OPEN position it has not visited yet is still in line to be refreshed.
C18_RefreshFailureIsolated ==
    [][(RefreshTurn /\ current_price' = None)
          => /\ trades' = trades
             /\ pc' = "update"
             /\ open_trades' = OpenBelow(trades', Visited)]_vars
\* no price came for a position although its venue's client is on, and
\* other positions of the snapshot are still to be visited
C18_Witness ==
    /\ pc = "update"
    /\ trade # None
    /\ current_price = None
    /\ open_trades # <<>>
    /\ polymarket_client /\ kalshi_client

\* the head of the list lacks its market identifier
HeadIsMalformed == OppMarketId(Head(opportunities)) \in {"", PyNone}

\* C20: when the entry loop comes to a record without a market identifier, no
\* position is opened for it, the scan does not abort, and the loop goes on
\* to the remaining opportunities.
C20_MalformedSkipped ==
    [][(pc = "enter" /\ opportunities # <<>> /\ HeadIsMalformed)
          => /\ trades' = trades
             /\ pc' = "enter"
             /\ opportunities' = Tail(opportunities)]_vars

\* C19: whichever venues fail to deliver (an empty list), whatever lists come
\* back and whichever prices are absent, no error ends a scan, and a scan
\* that has merged its opportunities goes through the entry loop and the
\* refresh loop and reaches the reporting step.
C19_ScanCompletes ==
    /\ [](pc # "aborted")
    /\ (pc = "enter") ~> (pc = "report")
\* a scan reports although Polymarket, enabled, contributed no position: the
\* table holds Kalshi positions only, one of them still OPEN
C19_Witness ==
    /\ pc = "report"
    /\ polymarket_client /\ kalshi_client
    /\ OpenCount > 0
    /\ \A i \in DOMAIN trades : trades[i].market_source = "kalshi"

\* ids of the CLOSED rows
ClosedIds == {i \in DOMAIN trades : IsClosed(trades[i])}
\* reference sums over a set of row ids, one row at a time
RECURSIVE RefPnl(_)
RefPnl(S) ==
    IF S = {} THEN RatZero
    ELSE LET i == CHOOSE x \in S : TRUE
         IN  RatAdd(trades[i].profit_loss[1], RefPnl(S \ {i}))
RECURSIVE RefFees(_)
RefFees(S) ==
    IF S = {} THEN RatZero
    ELSE LET i == CHOOSE x \in S : TRUE
         IN  RatAdd(trades[i].fee_paid[1], RefFees(S \ {i}))
RECURSIVE RefNotional(_)
RefNotional(S) ==
    IF S = {} THEN 0
    ELSE LET i == CHOOSE x \in S : TRUE
         IN  trades[i].position_size + RefNotional(S \ {i})

\* C21: in every ledger state get_performance_stats is the aggregate over the
\* CLOSED rows alone: the counts of WON and LOST, win_rate = wins / total x
\* 100, total_pnl and total_fees the sums of profit_loss and fee_paid,
\* avg_profit = total_pnl / total, roi = total_pnl / sum of notional x 100;
\* and all of them 0 when no row is CLOSED.
C21_StatsAreClosedAggregate ==
    LET stats == get_performance_stats(trades)
        total == Cardinality(ClosedIds)
    IN  /\ stats.total_trades = total
        /\ stats.wins = Cardinality({i \in ClosedIds : Won(trades[i])})
        /\ stats.losses = Cardinality({i \in ClosedIds : Lost(trades[i])})
        /\ stats.total_pnl = RefPnl(ClosedIds)
        /\ stats.total_fees = RefFees(ClosedIds)
        /\ total = 0 =>
              /\ stats.win_rate = RatZero
              /\ stats.avg_profit = RatZero
              /\ stats.roi = RatZero
        /\ total > 0 =>
              /\ stats.win_rate = Rat(stats.wins * 100, total)
              /\ stats.avg_profit
                    = Rat(RefPnl(ClosedIds).num, RefPnl(ClosedIds).den * total)
              /\ stats.roi
                    = Rat(RefPnl(ClosedIds).num * 100,
                          RefPnl(ClosedIds).den * RefNotional(ClosedIds))
\* the table holds a row WON at a profit next to an OPEN row
C21_Witness ==
    /\ \E i \in DOMAIN trades : Won(trades[i]) /\ trades[i].profit_loss[1].num > 0
    /\ \E i \in DOMAIN trades : IsOpen(trades[i])

\* the step just taken is the entry loop opening a position for the head
EnteredHead ==
    /\ pc = "enter"
    /\ opportunities # <<>>
    /\ Len(trades') = Len(trades) + 1

\* C22: a position records as its side the side of the opportunity it was
\* opened from: NO for an opportunity quoting the NO leg, YES for one quoting
\* the YES leg.
C22_SideRecorded ==
    [][EnteredHead
          => trades'[Len(trades')].outcome_bet = Head(opportunities).outcome]_vars

\* the fields a row is given at creation
CreationFields(row) ==
    <<row.id, row.market_source, row.market_id, row.market_question,
      row.entry_price, row.position_size, row.entry_time, row.outcome_bet>>
\* the status and the six settlement fields
StatusAndSettlement(row) ==
    <<row.status, row.exit_price, row.outcome, row.profit_loss, row.fee_paid,
      row.exit_time, row.notes>>

\* C23: no ledger call changes a creation field of an existing row; a call
\* that changes a row's last-observed price changes nothing else of it, and
\* a call that changes its status or a settlement field leaves the
\* last-observed price as it was.
C23_CreationFieldsFrozen ==
    [][\A i \in DOMAIN trades :
          /\ i \in DOMAIN trades'
          /\ CreationFields(trades'[i]) = CreationFields(trades[i])
          /\ trades'[i].current_price # trades[i].current_price
                => StatusAndSettlement(trades'[i]) = StatusAndSettlement(trades[i])
          /\ StatusAndSettlement(trades'[i]) # StatusAndSettlement(trades[i])
                => trades'[i].current_price = trades[i].current_price]_vars
\* a row was refreshed to a price other than its entry price and then settled
C23_Witness ==
    \E i \in DOMAIN trades :
        /\ IsClosed(trades[i])
        /\ trades[i].current_price # Some(trades[i].entry_price)

\* the snapshot row get_open_trades returns for the row just inserted
NewSnapshotRow == Head(get_open_trades(trades'))

\* C24: the refresh step prices a position for the leg it took: of a position
\* opened from an opportunity quoting the NO leg the adapter is asked the NO
\* price, of one opened on the YES leg the YES price.
C24_OwnLegPriced ==
    [][EnteredHead
          => /\ NewSnapshotRow.id = Len(trades')
             /\ RequestedLeg(NewSnapshotRow) = Head(opportunities).outcome]_vars

\* C25: once update_open_positions has finished, every OPEN position has a
\* last-observed price that is not null, at least 0.80 and below 0.99.
C25_OpenPricesInBand ==
    pc \in {"report", "idle"} =>
       \A i \in OpenIds(trades) :
          /\ trades[i].current_price # None
          /\ trades[i].current_price[1] >= LOSS_THRESHOLD
          /\ trades[i].current_price[1] < WIN_THRESHOLD
\* a refresh has left one position OPEN right at the loss threshold and
\* another at its entry price
C25_Witness ==
    /\ pc = "report"
    /\ \E i \in OpenIds(trades) : trades[i].current_price = Some(LOSS_THRESHOLD)
    /\ \E i \in OpenIds(trades) : trades[i].current_price = Some(trades[i].entry_price)

\* C26: every position a scan has closed fits the rule that closed it: WON
\* with exit price 1.0, last-observed price >= 0.99 and profit_loss >= 0, or
\* LOST with exit price equal to the last-observed price and < 0.80; and the
\* summary's counts of wins and of losses add up to its count of CLOSED rows.
C26_ClosedByRule ==
    /\ \A i \in DOMAIN trades :
          IsClosed(trades[i]) =>
             \/ /\ trades[i].outcome = Some("WON")
                /\ trades[i].exit_price = Some(FULL_PRICE)
                /\ trades[i].current_price[1] >= WIN_THRESHOLD
                /\ trades[i].profit_loss[1].num >= 0
             \/ /\ trades[i].outcome = Some("LOST")
                /\ trades[i].exit_price = trades[i].current_price
                /\ trades[i].exit_price[1] < LOSS_THRESHOLD
    /\ LET closed == SelectSeq(trades, LAMBDA r : r.status = "CLOSED")
       IN  CountOutcome(closed, "WON") + CountOutcome(closed, "LOST") = Len(closed)
\* the ledger holds a position closed WON and one closed LOST
C26_Witness ==
    /\ \E i \in DOMAIN trades : Won(trades[i])
    /\ \E i \in DOMAIN trades : Lost(trades[i])

\* C27: under scan cycles a position is settled at most once: the rows the
\* refresh loop has still to visit are distinct and OPEN, so close_trade is
\* never called on a CLOSED row, and no step changes the outcome,
\* profit_loss, fee_paid or any other field of a CLOSED row.
C27_SettledAtMostOnce ==
    [][/\ pc = "update" =>
            \A k \in DOMAIN open_trades :
               /\ IsOpen(trades[open_trades[k].id])
               /\ \A l \in DOMAIN open_trades :
                     open_trades[k].id = open_trades[l].id => k = l
       /\ \A i \in DOMAIN trades :
             IsClosed(trades[i]) => trades'[i] = trades[i]]_vars
\* the refresh loop has just closed a position, with CLOSED rows both older
\* and newer than it in the ledger
C27_Witness ==
    /\ pc = "update"
    /\ trade # None
    /\ IsClosed(trades[trade[1].id])
    /\ \E i \in DOMAIN trades : i > trade[1].id /\ IsClosed(trades[i])
    /\ \E i \in DOMAIN trades : i < trade[1].id /\ IsClosed(trades[i])

\* the head of the list is for a (venue, market) with a CLOSED position
HeadWasClosed ==
    \E i \in ClosedIds :
        /\ trades[i].market_source = Head(opportunities).source
        /\ trades[i].market_id = OppMarketId(Head(opportunities))

\* C28: a CLOSED position does not block re-entry: when the entry loop comes
\* to an opportunity for a market with a CLOSED position, no OPEN position
\* has its market identifier, the cap is not reached and liquidity and volume
\* suffice, a new OPEN position on that market is added and the rows already
\* there stay as they are.
C28_ClosedDoesNotBlock ==
    [][(/\ pc = "enter"
        /\ opportunities # <<>>
        /\ HeadWasClosed
        /\ \A i \in OpenIds(trades) :
              trades[i].market_id # OppMarketId(Head(opportunities))
        /\ OpenCount < MAX_POSITIONS
        /\ HeadIsLiquid)
          => /\ Len(trades') = Len(trades) + 1
             /\ SubSeq(trades', 1, Len(trades)) = trades
             /\ IsOpen(trades'[Len(trades')])
             /\ trades'[Len(trades')].market_source = Head(opportunities).source
             /\ trades'[Len(trades')].market_id = OppMarketId(Head(opportunities))]_vars
\* one market has two CLOSED positions and has been entered a third time
C28_Witness ==
    \E i, j, k \in DOMAIN trades :
        /\ i < j /\ j < k
        /\ IsClosed(trades[i]) /\ IsClosed(trades[j]) /\ IsOpen(trades[k])
        /\ SameMarket(trades[i], trades[j])
        /\ SameMarket(trades[j], trades[k])

\* the row's venue tag names no adapter this bot runs
VenueOff(row) ==
    ~ \/ row.market_source = "kalshi" /\ kalshi_client
      \/ row.market_source = "polymarket" /\ polymarket_client

\* C29: an OPEN position whose venue adapter is disabled, or whose venue tag
\* matches neither adapter, is left exactly as it is by every step of every
\* cycle (it stays OPEN with its last-observed price), the refresh loop has
\* no price for it, and it counts against the cap: while the OPEN positions,
\* such ones included, number MAX_POSITIONS, the entry loop opens nothing.
C29_OffVenueUntouched ==
    [][/\ \A i \in OpenIds(trades) :
             VenueOff(trades[i]) => trades'[i] = trades[i]
       /\ (RefreshTurn /\ VenueOff(trades[Visited])) => current_price' = None
       /\ (pc = "enter" /\ OpenCount >= MAX_POSITIONS) => trades' = trades]_vars
\* the refresh loop of a cycle of a bot that runs Polymarket only has been
\* over a position of the switched-off venue and one with a foreign tag,
\* found no price for the last of them, and the two still fill the cap
C29_Witness ==
    /\ pc = "update"
    /\ open_trades = <<>>
    /\ polymarket_client
    /\ trade # None
    /\ VenueOff(trade[1])
    /\ current_price = None
    /\ OpenCount = MAX_POSITIONS
    /\ \A i \in OpenIds(trades) : VenueOff(trades[i])
    /\ \E i \in OpenIds(trades) : trades[i].market_source = "other"
    /\ \E i \in OpenIds(trades) : trades[i].market_source = "kalshi"

\* C30: within one scan cycle every opening precedes every refresh and
\* settlement: a step of the entry loop changes no existing row; the snapshot
\* the refresh loop walks holds every position the cycle has opened, and such
\* a position is given the price fetched for it (and settled when the price
\* says so) in this same cycle; once the refresh loop has begun, no row is
\* added until the cycle is over, whatever slots settlements have freed.
C30_OpenThenRefresh ==
    [][/\ pc = "enter" =>
             \A i \in DOMAIN trades : trades'[i] = trades[i]
       /\ (pc = "enter" /\ pc' = "update") =>
             \A i \in OpenedThisScan :
                \E k \in DOMAIN open_trades' : open_trades'[k].id = i
       /\ (RefreshTurn /\ Visited \in OpenedThisScan /\ Truthy(current_price')) =>
             /\ trades'[Visited].current_price = current_price'
             /\ IsClosed(trades'[Visited]) <=>
                   \/ current_price'[1] >= WIN_THRESHOLD
                   \/ current_price'[1] < LOSS_THRESHOLD
       /\ pc \in {"update", "report"} => Len(trades') = Len(trades)]_vars
\* the cycle filled the cap with positions it opened itself, its refresh loop
\* has settled one of them and repriced another, and a slot is free
C30_Witness ==
    /\ pc = "update"
    /\ entered_count = MAX_POSITIONS
    /\ OpenCount < MAX_POSITIONS
    /\ \E i \in OpenedThisScan : IsClosed(trades[i])
    /\ \E i \in OpenedThisScan :
          /\ IsOpen(trades[i])
          /\ trades[i].current_price # Some(trades[i].entry_price)

====
